---- MODULE Spec2Model ----
(***************************************************************************)
(* A model of src/nn.py: the network builder MLP (construction and         *)
(* forward), the adaptable linear primitives it is built from, the set     *)
(* encoder DeepSet and the latent-variable model CVAE with its cached      *)
(* latent _z.                                                              *)
(*                                                                         *)
(* Tensors are two-dimensional: a sequence of rows (the batch axis), each  *)
(* row a sequence of integers (the feature axis).  A standard deviation    *)
(* exp(v / 2) is kept exactly, as the record ExpHalf(v): exp is strictly   *)
(* increasing, so exp(a/2) <= exp(v/2) <= exp(b/2) iff a <= v <= b.        *)
(* An optional value (Python's None) is a sequence of length 0 or 1.       *)
(***************************************************************************)
EXTENDS Integers, Sequences, FiniteSets

VARIABLES
    mlp,      \* the MLP under construction / constructed, with the caller's width list
    call,     \* the last call made on the object under study and what it returned
    _z,       \* CVAE._z: None, or Some(the cached latent tensor)
    cvae,     \* the CVAE's construction-time configuration
    hist,     \* what the CVAE's callers have observed (call history)
    deepset,  \* the DeepSet under study with its input and outputs
    given     \* the constructor arguments as the caller passed them

vars == <<mlp, call, _z, cvae, hist, deepset, given>>

None == <<>>
Some(v) == <<v>>

LOG_VAR_MAX == 2
LOG_VAR_MIN == -20

NoError == "none"

(***************************************************************************)
(* Small helpers over sequences and tensors.                               *)
(***************************************************************************)
RECURSIVE SumSeq(_)
SumSeq(s) == IF s = <<>> THEN 0 ELSE Head(s) + SumSeq(Tail(s))

Max2(a, b) == IF a >= b THEN a ELSE b
Min2(a, b) == IF a <= b THEN a ELSE b

\* Python's s[:-2] and s[-2:] on a sequence of modules.
AllButLastTwo(s) == SubSeq(s, 1, Max2(Len(s) - 2, 0))
LastTwo(s) == SubSeq(s, Max2(Len(s) - 2, 0) + 1, Len(s))

\* Width of a tensor's trailing axis (x.shape[-1]); tensors here have >= 1 row.
Width(t) == Len(t[1])

\* torch.cat((a, b), -1): the batch sizes must agree.
CatOk(a, b) == Len(a) = Len(b)
Cat(a, b) == [r \in 1..Len(a) |-> a[r] \o b[r]]

ExpHalf(v) == [exp_half_of |-> v]

(***************************************************************************)
(* The linear primitives: nn.Linear, BiasLinear, WLinear.                  *)
(* A parameter is named <<stack, idx, name>>: the stack that holds the     *)
(* primitive ("seq" or "head_seq"), its 0-based index fc_idx, and the      *)
(* parameter's name inside the primitive.                                  *)
(***************************************************************************)
LinearKinds == {"Linear", "BiasLinear", "WLinear"}

Module(kind, name, idx, inf, outf) ==
    [kind |-> kind, name |-> <<name, idx>>, in_features |-> inf, out_features |-> outf,
     init |-> "ones"]

ReLU(idx) == Module("ReLU", "relu", idx, 0, 0)

\* linear(in_features, out_features): the constructor's outcome.  WLinear
\* evaluates 1.0 / out_features and BiasLinear 1.0 / bias_size (bias_size =
\* out_features), which raise ZeroDivisionError for a zero width.
NewLinear(kind, idx, inf, outf) ==
    IF kind \in {"WLinear", "BiasLinear"} /\ outf = 0
    THEN [error |-> "ZeroDivisionError", module |-> Module(kind, "fc", idx, inf, outf)]
    ELSE [error |-> NoError, module |-> Module(kind, "fc", idx, inf, outf)]

\* module.parameters(), in registration order, without duplicates.
ParameterNames(kind) ==
    CASE kind = "Linear" -> <<"weight", "bias">>
      [] kind = "BiasLinear" -> <<"_bias", "_weight", "_linear.weight", "_linear.bias">>
      [] kind = "WLinear" -> <<"z", "fc.weight", "fc.bias">>
      [] OTHER -> <<>>

Qualify(stack, m, names) == [i \in 1..Len(names) |-> <<stack, m.name[2], names[i]>>]

ParametersOf(stack, m) == Qualify(stack, m, ParameterNames(m.kind))

\* BiasLinear.adaptation_parameters returns self.parameters().
BiasLinearAdaptationParameters(stack, m) == ParametersOf(stack, m)

\* WLinear.adaptation_parameters returns [self.z].
WLinearAdaptationParameters(stack, m) == Qualify(stack, m, <<"z">>)

\* w.adaptation_parameters(): nn.Linear defines no such method, so the
\* attribute lookup raises AttributeError.
AdaptationParametersOf(stack, m) ==
    CASE m.kind = "WLinear" ->
            [error |-> NoError, params |-> WLinearAdaptationParameters(stack, m)]
      [] m.kind = "BiasLinear" ->
            [error |-> NoError, params |-> BiasLinearAdaptationParameters(stack, m)]
      [] OTHER -> [error |-> "AttributeError", params |-> <<>>]

(***************************************************************************)
(* MLP.__init__.                                                           *)
(***************************************************************************)
\* linear = BiasLinear if bias_linear else nn.Linear, unless w_linear.
LinearOf(cfg) ==
    IF ~cfg.w_linear
    THEN (IF cfg.bias_linear THEN "BiasLinear" ELSE "Linear")
    ELSE "WLinear"

\* layer_widths[-1] *= 2 and layer_widths[-1] //= 2, on the caller's list.
DoubleLast(lw) == [lw EXCEPT ![Len(lw)] = lw[Len(lw)] * 2]
HalveLast(lw) == [lw EXCEPT ![Len(lw)] = lw[Len(lw)] \div 2]

\* The main loop, for idx in range(len(layer_widths) - 1); idx is 0-based.
RECURSIVE MainLoop(_, _, _, _, _)
MainLoop(kind, lw, idx, seq, aparams) ==
    IF idx >= Len(lw) - 1
    THEN [error |-> NoError, seq |-> seq, aparams |-> aparams]
    ELSE LET w == NewLinear(kind, idx, lw[idx + 1], lw[idx + 2])
             ap == AdaptationParametersOf("seq", w.module)
             seq1 == Append(seq, w.module)
             seq2 == IF idx < Len(lw) - 2 THEN Append(seq1, ReLU(idx)) ELSE seq1
         IN  IF w.error # NoError
             THEN [error |-> w.error, seq |-> seq, aparams |-> aparams]
             ELSE IF ap.error # NoError
             THEN [error |-> ap.error, seq |-> seq, aparams |-> aparams]
             ELSE MainLoop(kind, lw, idx + 1, seq2, aparams \o ap.params)

\* The head loop, over zip(extra_head_layers[:-1], extra_head_layers[1:]):
\* a ReLU, then the linear primitive.
RECURSIVE HeadLoop(_, _, _, _, _)
HeadLoop(kind, ehl, idx, head_seq, aparams) ==
    IF idx >= Len(ehl) - 1
    THEN [error |-> NoError, seq |-> head_seq, aparams |-> aparams]
    ELSE LET w == NewLinear(kind, idx, ehl[idx + 1], ehl[idx + 2])
             ap == AdaptationParametersOf("head_seq", w.module)
         IN  IF w.error # NoError
             THEN [error |-> w.error, seq |-> head_seq, aparams |-> aparams]
             ELSE IF ap.error # NoError
             THEN [error |-> ap.error, seq |-> head_seq, aparams |-> aparams]
             ELSE HeadLoop(kind, ehl, idx + 1,
                           head_seq \o <<ReLU(idx), w.module>>, aparams \o ap.params)

\* The object as it stands when the constructor exits, with the caller's
\* width list as the constructor leaves it.  status is "built" or "raised".
MLPObject(status, error, lw, cfg, seq, head_seq, aparams) ==
    [status |-> status, error |-> error, layer_widths |-> lw,
     _final_activation |-> cfg.final_activation,
     _head |-> cfg.extra_head_layers # None,
     deterministic |-> cfg.deterministic,
     bias_linear |-> cfg.bias_linear,
     linear |-> LinearOf(cfg),
     seq |-> seq,
     pre_seq |-> IF cfg.extra_head_layers # None THEN AllButLastTwo(seq) ELSE <<>>,
     post_seq |-> IF cfg.extra_head_layers # None THEN LastTwo(seq) ELSE <<>>,
     head_seq |-> head_seq,
     aparams |-> aparams]

MLPInit(cfg) ==
    LET lw0 == cfg.layer_widths IN
    IF Len(lw0) < 2
    THEN MLPObject("raised", "ValueError", lw0, cfg, <<>>, <<>>, <<>>)
    ELSE
    LET lw1 == IF ~cfg.deterministic THEN DoubleLast(lw0) ELSE lw0
        main == MainLoop(LinearOf(cfg), lw1, 0, <<>>, <<>>)
        lw2 == IF ~cfg.deterministic THEN HalveLast(lw1) ELSE lw1
        ehl == IF cfg.extra_head_layers # None
               THEN <<lw2[Len(lw2) - 1] + lw2[Len(lw2)]>> \o cfg.extra_head_layers[1]
               ELSE <<>>
        head == HeadLoop(LinearOf(cfg), ehl, 0, <<>>, main.aparams)
    IN  IF main.error # NoError
        THEN MLPObject("raised", main.error, lw1, cfg, main.seq, <<>>, main.aparams)
        ELSE IF cfg.extra_head_layers = None
        THEN MLPObject("built", NoError, lw2, cfg, main.seq, <<>>, main.aparams)
        ELSE IF head.error # NoError
        THEN MLPObject("raised", head.error, lw2, cfg, main.seq, head.seq, head.aparams)
        ELSE MLPObject("built", NoError, lw2, cfg, main.seq, head.seq, head.aparams)

\* Flatten the parameters of a stack's modules, in order.
RECURSIVE StackParameters(_, _)
StackParameters(stack, mods) ==
    IF mods = <<>> THEN <<>>
    ELSE ParametersOf(stack, Head(mods)) \o StackParameters(stack, Tail(mods))

\* nn.Module.parameters() of the MLP: every parameter of seq and head_seq
\* (pre_seq and post_seq share seq's modules).
Parameters(m) == StackParameters("seq", m.seq) \o StackParameters("head_seq", m.head_seq)

\* MLP.adaptation_parameters returns self.parameters().
MLPAdaptationParameters(m) == Parameters(m)

\* MLP.bias_parameters: the first layer's bias; nn.Linear's is .bias,
\* BiasLinear's is ._linear.bias; a WLinear has no attribute bias.
BiasParameters(m) ==
    IF m.bias_linear
    THEN (IF m.seq[1].kind = "WLinear"
          THEN [error |-> NoError, params |-> <<<<"seq", 0, "fc.bias">>>>]
          ELSE [error |-> NoError, params |-> <<<<"seq", 0, "_linear.bias">>>>])
    ELSE (IF m.seq[1].kind = "WLinear"
          THEN [error |-> "AttributeError", params |-> <<>>]
          ELSE [error |-> NoError, params |-> <<<<"seq", 0, "bias">>>>])

(***************************************************************************)
(* Forward computation.  The learned weights are stand-ins: every weight   *)
(* entry is 1 and the bias of output column j (1-based) is j - 1.  What    *)
(* the model keeps of a primitive is that it is a fixed affine map applied *)
(* to each row on its own.  A primitive marked init = "zero_logvar" (the   *)
(* last layer of the CVAE's prior network) has zero weights and biases on  *)
(* its log-variance columns, so that the prior's standard deviation is     *)
(* exp(0) = 1 and a latent sampled from it stays an integer.               *)
(***************************************************************************)
WeightAt(m, i, j) ==
    IF m.init = "zero_logvar" /\ j > m.out_features \div 2 THEN 0 ELSE 1
BiasAt(m, j) == IF m.init = "zero_logvar" THEN 0 ELSE j - 1

\* x @ w + b on one row (WLinear.forward; nn.Linear and BiasLinear alike).
LinearRow(m, row) ==
    [j \in 1..m.out_features |->
        SumSeq([i \in 1..Len(row) |-> row[i] * WeightAt(m, i, j)]) + BiasAt(m, j)]

ReLURow(row) == [j \in 1..Len(row) |-> Max2(row[j], 0)]

\* One module of a Sequential on a tensor.  A linear primitive fed rows of
\* another width than its in_features is a shape error (for nn.Linear and
\* BiasLinear; the specifications feed a WLinear rows of its in_features
\* only, where its view(x.shape[-1], -1) is the in_features x out_features
\* weight matrix).
ApplyModule(m, t) ==
    IF m.kind = "ReLU"
    THEN [error |-> NoError, val |-> [r \in 1..Len(t) |-> ReLURow(t[r])]]
    ELSE IF Width(t) # m.in_features
    THEN [error |-> "RuntimeError", val |-> <<>>]
    ELSE [error |-> NoError, val |-> [r \in 1..Len(t) |-> LinearRow(m, t[r])]]

\* nn.Sequential.forward: the modules in order.
RECURSIVE ApplySeq(_, _)
ApplySeq(mods, t) ==
    IF mods = <<>> THEN [error |-> NoError, val |-> t]
    ELSE LET r == ApplyModule(Head(mods), t)
         IN  IF r.error # NoError THEN r ELSE ApplySeq(Tail(mods), r.val)

\* The caller-supplied final_activation: the identity (the default) or
\* elementwise negation.
FinalActivation(name, t) ==
    IF name = "neg"
    THEN [r \in 1..Len(t) |-> [j \in 1..Len(t[r]) |-> 0 - t[r][j]]]
    ELSE t

\* torch.clamp(t, min=LOG_VAR_MIN, max=LOG_VAR_MAX), elementwise.
Clamp(t) ==
    [r \in 1..Len(t) |-> [j \in 1..Len(t[r]) |-> Min2(Max2(t[r][j], LOG_VAR_MIN), LOG_VAR_MAX)]]

\* mu_logvar[:, : mu_logvar.shape[-1] // 2]
MuHalf(t) == [r \in 1..Len(t) |-> SubSeq(t[r], 1, Len(t[r]) \div 2)]

\* (mu_logvar[:, mu_logvar.shape[-1] // 2 :] / 2).exp()
SigmaHalf(t) ==
    [r \in 1..Len(t) |->
        [j \in 1..(Len(t[r]) - Len(t[r]) \div 2) |-> ExpHalf(t[r][Len(t[r]) \div 2 + j])]]

Raised(e) ==
    [error |-> e, kind |-> "raised", out |-> <<>>, mu |-> <<>>, sigma |-> <<>>,
     head_output |-> <<>>]

\* The head path of MLP.forward (self._head and acts is not None).
ForwardHead(m, x, acts) ==
    LET h == ApplySeq(m.pre_seq, x)
        post == ApplySeq(m.post_seq, h.val)
        mu_logvar == Clamp(FinalActivation(m._final_activation, post.val))
        head_output == ApplySeq(m.head_seq, Cat(h.val, acts))
    IN  IF h.error # NoError THEN Raised(h.error)
        ELSE IF ~CatOk(h.val, acts) THEN Raised("RuntimeError")
        ELSE IF post.error # NoError THEN Raised(post.error)
        ELSE IF head_output.error # NoError THEN Raised(head_output.error)
        ELSE IF m.deterministic
        THEN [error |-> NoError, kind |-> "head_det", out |-> mu_logvar,
              mu |-> <<>>, sigma |-> <<>>, head_output |-> head_output.val]
        ELSE [error |-> NoError, kind |-> "head_prob", out |-> <<>>,
              mu |-> MuHalf(mu_logvar), sigma |-> SigmaHalf(mu_logvar),
              head_output |-> head_output.val]

\* The other two branches of MLP.forward: the whole stack, then the final
\* activation; in probabilistic mode the split into (mu, sigma).
ForwardPlain(m, x) ==
    LET s == ApplySeq(m.seq, x)
        mu_logvar == FinalActivation(m._final_activation, s.val)
    IN  IF s.error # NoError THEN Raised(s.error)
        ELSE IF m.deterministic
        THEN [error |-> NoError, kind |-> "tensor", out |-> mu_logvar,
              mu |-> <<>>, sigma |-> <<>>, head_output |-> <<>>]
        ELSE [error |-> NoError, kind |-> "pair", out |-> <<>>,
              mu |-> MuHalf(mu_logvar), sigma |-> SigmaHalf(mu_logvar),
              head_output |-> <<>>]

\* MLP.forward(x, acts); acts is None or Some(tensor).
MLPForward(m, x, acts) ==
    IF m._head /\ acts # None
    THEN ForwardHead(m, x, acts[1])
    ELSE ForwardPlain(m, x)

(***************************************************************************)
(* DeepSet.  Its input x is indexed x[b][c][n]: batch item b, channel c    *)
(* (the element's features) and element n along the trailing axis.  The    *)
(* Conv1d weights are stand-ins: entry (o, c) is 1 when o + c is even and  *)
(* -1 otherwise, and the bias of output channel o is o - 1.  A mean is     *)
(* kept exactly, as the fraction num / den.                                *)
(***************************************************************************)
ConvWeightAt(m, o, c) == IF (o + c) % 2 = 0 THEN 1 ELSE -1
ConvBiasAt(m, o) == o - 1

\* The encoder DeepSet.__init__ assembles from [element_dim] + encoder_hidden
\* + [encoding_dim]: a Conv1d(d, d_, 1) and, as idx < len(encoder_hidden) - 1
\* holds for every idx of the loop, a ReLU after each of them.
RECURSIVE EncoderLoop(_, _, _)
EncoderLoop(dims, idx, encoders) ==
    IF idx >= Len(dims) - 1 THEN encoders
    ELSE LET conv == Module("Conv1d", "conv", idx, dims[idx + 1], dims[idx + 2])
             e1 == Append(encoders, conv)
             e2 == IF idx < Len(dims) - 1 THEN Append(e1, ReLU(idx)) ELSE e1
         IN  EncoderLoop(dims, idx + 1, e2)

DeepSetInit(element_dim, encoding_dim, encoder_hidden) ==
    [status |-> "built",
     encoder |-> EncoderLoop(<<element_dim>> \o encoder_hidden \o <<encoding_dim>>, 0, <<>>)]

\* nn.Conv1d with kernel size 1 on one batch item: every element (position
\* n) is mapped on its own by the same weights.
ConvItem(m, item) ==
    LET n_elems == Len(item[1]) IN
    [o \in 1..m.out_features |->
        [n \in 1..n_elems |->
            SumSeq([c \in 1..Len(item) |-> ConvWeightAt(m, o, c) * item[c][n]])
                + ConvBiasAt(m, o)]]

ReLUItem(item) == [c \in 1..Len(item) |-> ReLURow(item[c])]

\* A Conv1d fed another number of channels than its in_channels is a shape
\* error.
ApplyEncoderModule(m, x) ==
    IF m.kind = "ReLU"
    THEN [error |-> NoError, val |-> [b \in 1..Len(x) |-> ReLUItem(x[b])]]
    ELSE IF Len(x[1]) # m.in_features
    THEN [error |-> "RuntimeError", val |-> <<>>]
    ELSE [error |-> NoError, val |-> [b \in 1..Len(x) |-> ConvItem(m, x[b])]]

RECURSIVE ApplyEncoder(_, _)
ApplyEncoder(mods, x) ==
    IF mods = <<>> THEN [error |-> NoError, val |-> x]
    ELSE LET r == ApplyEncoderModule(Head(mods), x)
         IN  IF r.error # NoError THEN r ELSE ApplyEncoder(Tail(mods), r.val)

\* A variant aggregator that keeps the last element instead of the mean.
AggregatorLastElement(encodings) ==
    [b \in 1..Len(encodings) |->
        [c \in 1..Len(encodings[b]) |->
            [num |-> encodings[b][c][Len(encodings[b][c])], den |-> 1]]]

\* self.aggregator = lambda x: x.mean(-1)
Aggregator(encodings) ==
    [b \in 1..Len(encodings) |->
        [c \in 1..Len(encodings[b]) |->
            [num |-> SumSeq(encodings[b][c]), den |-> Len(encodings[b][c])]]]

\* DeepSet.forward
DeepSetForward(ds, x) ==
    LET encodings == ApplyEncoder(ds.encoder, x)
    IN  IF encodings.error # NoError
        THEN [error |-> encodings.error, val |-> <<>>]
        ELSE [error |-> NoError, val |-> Aggregator(encodings.val)]

\* x with its trailing (element) axis reordered by the permutation p.
PermuteElements(x, p) ==
    [b \in 1..Len(x) |-> [c \in 1..Len(x[b]) |-> [n \in 1..Len(x[b][c]) |-> x[b][c][p[n]]]]]

Permutations(n) == {p \in [1..n -> 1..n] : \A i, j \in 1..n : p[i] = p[j] => i = j}

(***************************************************************************)
(* CVAE.  Its networks are MLPs with MLP's default arguments: nn.Linear    *)
(* primitives, deterministic, identity final activation, no head.  They    *)
(* are taken as the main loop assembles them; that nn.Linear has no        *)
(* adaptation_parameters, which ends MLP's constructor, is modelled in     *)
(* MLPInit.  The hidden widths are stand-ins for [128, 64] and [128, 128]. *)
(***************************************************************************)
RECURSIVE LinearStack(_, _, _)
LinearStack(lw, idx, seq) ==
    IF idx >= Len(lw) - 1 THEN seq
    ELSE LET w == NewLinear("Linear", idx, lw[idx + 1], lw[idx + 2])
             seq1 == Append(seq, w.module)
             seq2 == IF idx < Len(lw) - 2 THEN Append(seq1, ReLU(idx)) ELSE seq1
         IN  LinearStack(lw, idx + 1, seq2)

DefaultConfig(lw) ==
    [layer_widths |-> lw, final_activation |-> "identity", bias_linear |-> FALSE,
     extra_head_layers |-> None, w_linear |-> FALSE, deterministic |-> TRUE]

DefaultMLP(lw) ==
    MLPObject("built", NoError, lw, DefaultConfig(lw), LinearStack(lw, 0, <<>>), <<>>, <<>>)

\* The prior network, with the stand-in weights of its last layer.
PriorMLP(lw) ==
    LET m == DefaultMLP(lw)
    IN  [m EXCEPT !.seq = [m.seq EXCEPT ![Len(m.seq)] =
                              [m.seq[Len(m.seq)] EXCEPT !.init = "zero_logvar"]]]

\* CVAE.__init__: the instance's fields.  _z, the cached latent, is the
\* variable _z and starts None.
CVAEInit(cfg) ==
    [status |-> "built",
     observation_dim |-> cfg.observation_dim,
     _encoder |-> DefaultMLP(<<cfg.traj_dim>> \o cfg.encoder_hidden \o <<cfg.latent_dim * 2>>),
     _prior |-> IF cfg.condition_prior
                THEN Some(PriorMLP(<<cfg.observation_dim>> \o cfg.encoder_hidden
                                       \o <<cfg.latent_dim * 2>>))
                ELSE None,
     _decoder |-> DefaultMLP(<<IF ~cfg.preprocess
                               THEN cfg.latent_dim + cfg.observation_dim
                               ELSE cfg.latent_dim * 2>>
                             \o cfg.decoder_hidden \o <<cfg.action_dim * 2>>),
     _traj_encoder |-> DeepSetInit(cfg.observation_dim + cfg.action_dim, cfg.traj_dim,
                                   cfg.set_hidden),
     _preprocess |-> IF cfg.preprocess
                     THEN Some([_state_preprocess |->
                                    DefaultMLP(<<cfg.observation_dim>> \o cfg.decoder_hidden
                                                   \o <<cfg.latent_dim>>),
                                _latent_preprocess |->
                                    DefaultMLP(<<cfg.latent_dim>> \o cfg.decoder_hidden
                                                   \o <<cfg.latent_dim>>)])
                     ELSE None,
     _latent_dim |-> cfg.latent_dim]

Zeros(rows, cols) == [r \in 1..rows |-> [j \in 1..cols |-> 0]]

\* noise * std + mean for one entry; std = exp(0) = 1 keeps it an integer,
\* any other std keeps the term.
SampleEntry(eps, std, mean) ==
    IF std.exp_half_of = 0 THEN eps + mean ELSE [eps |-> eps, std |-> std, mu |-> mean]

\* CVAE.sample, with the noise tensor torch.empty_like(mu).normal_() drew.
Sample(mu_logvar, eps) ==
    LET mu == MuHalf(mu_logvar)
        std == SigmaHalf(mu_logvar)
    IN  [r \in 1..Len(mu) |-> [j \in 1..Len(mu[r]) |-> SampleEntry(eps[r][j], std[r][j], mu[r][j])]]

\* The mean / log-variance CVAE.prior computes: zeros of batch size 1
\* without a conditioning prior, the prior network on obs with one.
PriorMuLogvar(c, obs) ==
    IF c._prior = None
    THEN [error |-> NoError, val |-> Zeros(1, c._latent_dim * 2)]
    ELSE LET r == MLPForward(c._prior[1], obs, None)
         IN  [error |-> r.error, val |-> r.out]

\* CVAE.decode up to mu_logvar: the optional preprocessing, the
\* concatenation (latent, obs) and the decoder network.
DecodeMuLogvar(c, latent, obs) ==
    LET s == IF c._preprocess # None
             THEN MLPForward(c._preprocess[1]._state_preprocess, obs, None)
             ELSE [error |-> NoError, out |-> obs]
        l == IF c._preprocess # None
             THEN MLPForward(c._preprocess[1]._latent_preprocess, latent, None)
             ELSE [error |-> NoError, out |-> latent]
        d == MLPForward(c._decoder, Cat(l.out, s.out), None)
    IN  IF s.error # NoError THEN [error |-> s.error, val |-> <<>>]
        ELSE IF l.error # NoError THEN [error |-> l.error, val |-> <<>>]
        ELSE IF ~CatOk(l.out, s.out) THEN [error |-> "RuntimeError", val |-> <<>>]
        ELSE [error |-> d.error, val |-> d.out]

\* CVAE.encode up to mu_logvar: the set encoder, then the encoder network.
\* The set encoder's means are fed on as integers (see IntegralMeans).
MeansAsIntegers(t) == [r \in 1..Len(t) |-> [j \in 1..Len(t[r]) |-> t[r][j].num \div t[r][j].den]]

IntegralMeans(t) ==
    \A r \in 1..Len(t) : \A j \in 1..Len(t[r]) : t[r][j].num % t[r][j].den = 0

EncodeMuLogvar(c, traj) ==
    LET e == DeepSetForward(c._traj_encoder, traj)
        m == MLPForward(c._encoder, MeansAsIntegers(e.val), None)
    IN  IF e.error # NoError THEN [error |-> e.error, val |-> <<>>]
        ELSE [error |-> m.error, val |-> m.out]

\* The branch of CVAE.forward: if self._z is not None.
UseCachedNever(z) == FALSE

UseCached(z) == z # None

\* What a failed fix would leave were _z cleared before the prior is run.
FixStoreClearing(old, p_error, latent) ==
    IF p_error # NoError THEN None ELSE Some(latent)

\* CVAE.fix: self._z = self.prior(obs, True)[1].detach().  The assignment
\* happens only when the right-hand side has been computed; when prior
\* raises, _z keeps its value.
FixStore(old, p_error, latent) ==
    IF p_error # NoError THEN old ELSE Some(latent)

(***************************************************************************)
(* Bounds and input domains.                                               *)
(***************************************************************************)
MaxLayers == 3       \* longest width list handed to MLP's constructor
MaxWidth == 2        \* largest layer width handed to MLP's constructor
MaxHead == 1         \* longest extra_head_layers list
FwdMaxWidth == 2     \* largest layer width of the MLPs that are run forward
MaxBatch == 2        \* largest batch size of an input tensor

InputValues == {-25, 1, 3}
ActValues == {1}

ListsOver(S, lo, hi) == UNION {[1..n -> S] : n \in lo..hi}

\* All tensors of the given width with 1..MaxBatch rows.
Tensors(vals, width) == UNION {[1..b -> [1..width -> vals]] : b \in 1..MaxBatch}

Activations == {"identity", "neg"}

Configs(widthLists, headLists) ==
    [layer_widths : widthLists,
     final_activation : Activations,
     bias_linear : BOOLEAN,
     extra_head_layers : {None} \cup {Some(l) : l \in headLists},
     w_linear : BOOLEAN,
     deterministic : BOOLEAN]

ConstructorConfigs ==
    Configs(ListsOver(0..MaxWidth, 0, MaxLayers), ListsOver(0..MaxWidth, 0, MaxHead))

ForwardConfigs ==
    Configs(ListsOver(1..FwdMaxWidth, 2, MaxLayers), ListsOver(1..FwdMaxWidth, 0, MaxHead))

NoCall == [op |-> "none"]
NoMLP == [status |-> "none"]
NoCVAE == [status |-> "none"]
NoDeepSet == [status |-> "none"]
NoConfig == [layer_widths |-> <<>>]

(***************************************************************************)
(* Specification of MLP's construction and its parameter accessors.        *)
(***************************************************************************)
OthersIdle == _z = None /\ cvae = NoCVAE /\ hist = <<>> /\ deepset = NoDeepSet

InitMLP ==
    /\ mlp = NoMLP
    /\ call = NoCall
    /\ given = NoConfig
    /\ OthersIdle

\* MLP(layer_widths, final_activation, bias_linear, extra_head_layers,
\*     w_linear, deterministic)
Construct ==
    /\ mlp.status = "none"
    /\ \E cfg \in ConstructorConfigs :
          /\ given' = cfg
          /\ mlp' = MLPInit(cfg)
          /\ call' = [op |-> "__init__"]
    /\ UNCHANGED <<_z, cvae, hist, deepset>>

AdaptationParametersCall ==
    /\ mlp.status = "built"
    /\ call' = [op |-> "adaptation_parameters", ret |-> MLPAdaptationParameters(mlp)]
    /\ UNCHANGED <<mlp, given, _z, cvae, hist, deepset>>

BiasParametersCall ==
    /\ mlp.status = "built"
    /\ call' = [op |-> "bias_parameters", ret |-> BiasParameters(mlp)]
    /\ UNCHANGED <<mlp, given, _z, cvae, hist, deepset>>

NextMLP == Construct \/ AdaptationParametersCall \/ BiasParametersCall

SpecMLP == InitMLP /\ [][NextMLP]_vars

(***************************************************************************)
(* Specification of MLP.forward on every MLP that can be built from        *)
(* ForwardConfigs.                                                         *)
(***************************************************************************)
InitForward ==
    /\ given \in ForwardConfigs
    /\ mlp = MLPInit(given)
    /\ mlp.status = "built"
    /\ call = NoCall
    /\ OthersIdle

\* forward(x): acts left at its default None.  forward keeps no state, so
\* one call per run covers every call.
ForwardNoActs ==
    /\ call.op = "none"
    /\ \E x \in Tensors(InputValues, given.layer_widths[1]) :
          call' = [op |-> "forward", x |-> x, acts |-> None,
                   ret |-> MLPForward(mlp, x, None)]
    /\ UNCHANGED <<mlp, given, _z, cvae, hist, deepset>>

\* forward(x, acts).
ForwardActs ==
    /\ call.op = "none"
    /\ \E x \in Tensors(InputValues, given.layer_widths[1]) :
       \E acts \in Tensors(ActValues, given.layer_widths[Len(given.layer_widths)]) :
          call' = [op |-> "forward", x |-> x, acts |-> Some(acts),
                   ret |-> MLPForward(mlp, x, Some(acts))]
    /\ UNCHANGED <<mlp, given, _z, cvae, hist, deepset>>

NextForward == ForwardNoActs \/ ForwardActs

SpecForward == InitForward /\ [][NextForward]_vars

(***************************************************************************)
(* Claims about MLP.                                                       *)
(***************************************************************************)
Returned == call.op = "forward" /\ call.ret.error = NoError

SigmaWithinBounds(sigma) ==
    \A r \in 1..Len(sigma) : \A j \in 1..Len(sigma[r]) :
        /\ LOG_VAR_MIN <= sigma[r][j].exp_half_of
        /\ sigma[r][j].exp_half_of <= LOG_VAR_MAX

\* C3: for an MLP built with deterministic=False, every forward call that
\* returns (with or without a head, with or without acts) returns a standard
\* deviation exp(v / 2) whose log-variance v lies in [LOG_VAR_MIN, LOG_VAR_MAX],
\* that is a standard deviation within [exp(-10), exp(1)].
C3_LogVarianceBound ==
    (Returned /\ ~mlp.deterministic) => SigmaWithinBounds(call.ret.sigma)

\* C7: for an MLP built with deterministic=True, the primary output of every
\* forward call that returns is final_activation applied to the output of
\* the full stack, unchanged, with and without the head and acts.
C7_DeterministicOutputUnchanged ==
    (Returned /\ mlp.deterministic) =>
        call.ret.out = FinalActivation(mlp._final_activation, ApplySeq(mlp.seq, call.x).val)

Positive(list) == \A i \in 1..Len(list) : list[i] > 0

PositiveWidths(cfg) ==
    /\ Positive(cfg.layer_widths)
    /\ cfg.extra_head_layers # None => Positive(cfg.extra_head_layers[1])

IsLinear(m) == m.kind \in LinearKinds

\* The main stack alternates k-1 linear primitives with k-2 ReLUs and ends
\* with a linear primitive.
WellFormedStack(seq, k) ==
    /\ Len(seq) = 2 * k - 3
    /\ \A i \in 1..Len(seq) : IF i % 2 = 1 THEN IsLinear(seq[i]) ELSE seq[i].kind = "ReLU"

\* C5: a width list of fewer than two entries raises ValueError before any
\* layer is built; a list of k >= 2 (positive) widths constructs, for every
\* choice of linear primitive, into a main stack of k-1 linear primitives
\* alternating with k-2 ReLUs and no trailing ReLU.
C5_ConstructionValidation ==
    mlp.status # "none" =>
        IF Len(given.layer_widths) < 2
        THEN mlp.status = "raised" /\ mlp.error = "ValueError" /\ mlp.seq = <<>>
        ELSE PositiveWidths(given) =>
                /\ mlp.status = "built"
                /\ WellFormedStack(mlp.seq, Len(given.layer_widths))

Range(s) == {s[i] : i \in 1..Len(s)}

\* The latent vectors z of the WLinear primitives of both stacks.
LatentVectors(m) ==
    {<<"seq", m.seq[i].name[2], "z">> : i \in {k \in 1..Len(m.seq) : IsLinear(m.seq[k])}}
    \cup {<<"head_seq", m.head_seq[i].name[2], "z">> :
            i \in {k \in 1..Len(m.head_seq) : IsLinear(m.head_seq[k])}}

\* C6: for an MLP built from WLinear primitives, adaptation_parameters
\* returns exactly the latent vectors z of its layers (main stack and head):
\* the aggregate of the primitives' adaptation parameters, without the
\* weight-generating maps.
C6_AdaptationParametersAreLatents ==
    (call.op = "adaptation_parameters" /\ mlp.linear = "WLinear") =>
        /\ Range(call.ret) = LatentVectors(mlp)
        /\ Range(call.ret) = Range(mlp.aparams)

\* C9: when the constructor exits, by returning or by raising, the caller's
\* layer_widths list holds the values it had before the call.
C9_WidthListRestored ==
    mlp.status # "none" => mlp.layer_widths = given.layer_widths

(***************************************************************************)
(* Specification of DeepSet.forward: a set encoder, one input, and the     *)
(* same input with its elements reordered.                                 *)
(***************************************************************************)
DsMaxElems == 3      \* largest number of elements of an input set

\* Batches of two sets are drawn for one-channel elements only.
DsBatchSizes(channels) == IF channels = 1 THEN {1, 2} ELSE {1}

ElementValues == {-1, 2}

\* Batches of sets: x[b][c][n] with c channels and n elements.
SetBatches(vals, channels, batchSizes, maxElems) ==
    UNION {[1..b -> [1..channels -> [1..n -> vals]]] : b \in batchSizes, n \in 1..maxElems}

DeepSetConfigs ==
    [element_dim : {1, 2}, encoding_dim : {2}, encoder_hidden : {<<2>>, <<2, 1>>}]

InitDeepSet ==
    /\ \E cfg \in DeepSetConfigs :
          deepset = DeepSetInit(cfg.element_dim, cfg.encoding_dim, cfg.encoder_hidden)
    /\ call = NoCall
    /\ mlp = NoMLP /\ given = NoConfig
    /\ _z = None /\ cvae = NoCVAE /\ hist = <<>>

\* forward(x), and forward on x with its element axis permuted by p.
DeepSetForwardCall ==
    /\ call.op = "none"
    /\ \E x \in SetBatches(ElementValues, deepset.encoder[1].in_features,
                            DsBatchSizes(deepset.encoder[1].in_features), DsMaxElems) :
       \E p \in Permutations(Len(x[1][1])) :
          call' = [op |-> "forward", x |-> x, p |-> p,
                   ret |-> DeepSetForward(deepset, x),
                   ret_permuted |-> DeepSetForward(deepset, PermuteElements(x, p))]
    /\ UNCHANGED <<deepset, mlp, given, _z, cvae, hist>>

\* forward on a batch whose channel count is not element_dim.
DeepSetForwardMalformed ==
    /\ call.op = "none"
    /\ \E x \in SetBatches({2}, deepset.encoder[1].in_features + 1, {1}, DsMaxElems) :
          call' = [op |-> "forward", x |-> x, p |-> <<>>,
                   ret |-> DeepSetForward(deepset, x),
                   ret_permuted |-> DeepSetForward(deepset, x)]
    /\ UNCHANGED <<deepset, mlp, given, _z, cvae, hist>>

NextDeepSet == DeepSetForwardCall \/ DeepSetForwardMalformed

SpecDeepSet == InitDeepSet /\ [][NextDeepSet]_vars

\* C8: for any DeepSet input and any permutation of its element (trailing)
\* axis, forward returns the same output on the permuted input as on the
\* input.
C8_PermutationInvariance ==
    call.op = "forward" => call.ret_permuted = call.ret

\* A forward call has returned for an input of at least two elements, not
\* all encoded alike, reordered by a permutation that is not the identity.
C8_Witness ==
    /\ call.op = "forward"
    /\ call.ret.error = NoError
    /\ Len(call.x[1][1]) >= 2
    /\ \E n \in 1..Len(call.p) : call.p[n] # n
    /\ PermuteElements(call.x, call.p) # call.x
    /\ ApplyEncoder(deepset.encoder, PermuteElements(call.x, call.p)).val
         # ApplyEncoder(deepset.encoder, call.x).val

(***************************************************************************)
(* Specification of a CVAE instance and the calls of its public            *)
(* operations.  hist records what the caller has seen: the last fix/unfix  *)
(* call and how it ended (lastFU), the last fix/unfix call that completed  *)
(* (lastDoneFU), and the first forward call that returned since then, in   *)
(* the fixed state (first).                                                *)
(***************************************************************************)
CvaeMaxBatch == 2    \* largest batch of observations and latents
TrajMaxElems == 2    \* largest number of elements of a trajectory

ObsValues == {3}
NoiseValues == {0, 1}
LatentValues == {1}
TrajValues == {2}
MuLogvarValues == {0, 3}

CVAEConfigs ==
    [observation_dim : {1}, action_dim : {1}, traj_dim : {1}, latent_dim : {1},
     encoder_hidden : {<<2>>}, decoder_hidden : {<<2>>}, set_hidden : {<<2>>},
     condition_prior : BOOLEAN, preprocess : BOOLEAN]

Batches(vals, width) == UNION {[1..b -> [1..width -> vals]] : b \in 1..CvaeMaxBatch}

\* Observations of the instance's observation_dim, and one of another width.
ObsInputs == Batches(ObsValues, cvae.observation_dim) \cup {<<[j \in 1..(cvae.observation_dim + 1) |-> 1]>>}

\* The noise tensors torch.empty_like(t).normal_() can draw.
NoiseLike(t) == [1..Len(t) -> [1..Len(t[1]) -> NoiseValues]]

InitCVAE ==
    /\ \E cfg \in CVAEConfigs : cvae = CVAEInit(cfg)
    /\ _z = None
    /\ call = NoCall
    /\ hist = [lastFU |-> "none", lastDoneFU |-> "none", first |-> None, repeated |-> FALSE]
    /\ mlp = NoMLP /\ given = NoConfig /\ deepset = NoDeepSet

\* fix(obs)
Fix ==
    /\ \E obs \in ObsInputs :
          LET pm == PriorMuLogvar(cvae, obs) IN
          IF pm.error # NoError
          THEN /\ _z' = FixStore(_z, pm.error, <<>>)
               /\ call' = [op |-> "fix", obs |-> obs, error |-> pm.error, z_before |-> _z]
               /\ hist' = [hist EXCEPT !.lastFU = "fix_raised"]
          ELSE \E eps \in NoiseLike(MuHalf(pm.val)) :
               /\ _z' = FixStore(_z, NoError, Sample(pm.val, eps))
               /\ call' = [op |-> "fix", obs |-> obs, error |-> NoError, z_before |-> _z]
               /\ hist' = [lastFU |-> "fix", lastDoneFU |-> "fix", first |-> None,
                           repeated |-> FALSE]
    /\ UNCHANGED <<cvae, mlp, given, deepset>>

\* unfix()
Unfix ==
    /\ _z' = None
    /\ call' = [op |-> "unfix", z_before |-> _z]
    /\ hist' = [lastFU |-> "unfix", lastDoneFU |-> "unfix", first |-> None, repeated |-> FALSE]
    /\ UNCHANGED <<cvae, mlp, given, deepset>>

\* The rest of forward once the latent z is chosen: decode and split into
\* (mean, std).
ForwardResult(c, obs, z) ==
    LET d == DecodeMuLogvar(c, z, obs)
    IN  IF d.error # NoError
        THEN [error |-> d.error, mu |-> <<>>, sigma |-> <<>>]
        ELSE [error |-> NoError, mu |-> MuHalf(d.val), sigma |-> SigmaHalf(d.val)]

\* CVAE.forward, given the noise tensors a sampling step may draw: the call
\* as the caller sees it.
ForwardOutcomes(c, z, obs) ==
    IF UseCached(z)
    THEN {[op |-> "forward", obs |-> obs, z_before |-> z, fixed |-> z # None, draws |-> 0,
           eps |-> None, z_used |-> Some(z[1]), ret |-> ForwardResult(c, obs, z[1])]}
    ELSE LET pm == PriorMuLogvar(c, obs) IN
         IF pm.error # NoError
         THEN {[op |-> "forward", obs |-> obs, z_before |-> z, fixed |-> z # None, draws |-> 0,
                eps |-> None, z_used |-> None,
                ret |-> [error |-> pm.error, mu |-> <<>>, sigma |-> <<>>]]}
         ELSE {[op |-> "forward", obs |-> obs, z_before |-> z, fixed |-> z # None, draws |-> 1,
                eps |-> Some(eps), z_used |-> Some(Sample(pm.val, eps)),
                ret |-> ForwardResult(c, obs, Sample(pm.val, eps))] :
                  eps \in NoiseLike(MuHalf(pm.val))}

\* forward(obs)
Forward ==
    /\ \E obs \in ObsInputs :
       \E outcome \in ForwardOutcomes(cvae, _z, obs) :
          /\ call' = outcome
          /\ hist' = IF outcome.ret.error # NoError \/ _z = None THEN hist
                     ELSE IF hist.first = None
                     THEN [hist EXCEPT !.first = Some([obs |-> obs, ret |-> outcome.ret])]
                     ELSE IF hist.first[1].obs = obs
                     THEN [hist EXCEPT !.repeated = TRUE]
                     ELSE hist
    /\ UNCHANGED <<_z, cvae, mlp, given, deepset>>

WithSample(op, r, eps) ==
    [op |-> op, error |-> NoError, z_before |-> _z, mu_logvar |-> r.val,
     sample |-> Some(Sample(r.val, eps))]

WithoutSample(op, r) ==
    [op |-> op, error |-> r.error, z_before |-> _z, mu_logvar |-> r.val, sample |-> None]

\* The tail that prior, encode and decode share: return mu_logvar, or
\* mu_logvar with a sample of it.
ReturnMuLogvar(op, r, sample) ==
    IF r.error # NoError \/ ~sample
    THEN call' = WithoutSample(op, r)
    ELSE \E eps \in NoiseLike(MuHalf(r.val)) : call' = WithSample(op, r, eps)

\* prior(obs, sample)
PriorCall ==
    /\ \E obs \in ObsInputs, sample \in BOOLEAN :
          ReturnMuLogvar("prior", PriorMuLogvar(cvae, obs), sample)
    /\ UNCHANGED <<_z, hist, cvae, mlp, given, deepset>>

\* encode(traj, sample), on trajectories whose element means are integers.
EncodeCall ==
    /\ \E traj \in SetBatches(TrajValues, cvae._traj_encoder.encoder[1].in_features, {1},
                                TrajMaxElems),
          sample \in BOOLEAN :
          /\ IntegralMeans(DeepSetForward(cvae._traj_encoder, traj).val)
          /\ ReturnMuLogvar("encode", EncodeMuLogvar(cvae, traj), sample)
    /\ UNCHANGED <<_z, hist, cvae, mlp, given, deepset>>

\* decode(latent, obs, sample)
DecodeCall ==
    /\ \E latent \in Batches(LatentValues, cvae._latent_dim), obs \in ObsInputs,
          sample \in BOOLEAN :
          ReturnMuLogvar("decode", DecodeMuLogvar(cvae, latent, obs), sample)
    /\ UNCHANGED <<_z, hist, cvae, mlp, given, deepset>>

\* sample(mu_logvar)
SampleCall ==
    /\ \E mu_logvar \in {<<row>> : row \in [1..(cvae._latent_dim * 2) -> MuLogvarValues]} :
       \E eps \in NoiseLike(MuHalf(mu_logvar)) :
          call' = [op |-> "sample", error |-> NoError, z_before |-> _z,
                   mu_logvar |-> mu_logvar,
                   sample |-> Some(Sample(mu_logvar, eps))]
    /\ UNCHANGED <<_z, hist, cvae, mlp, given, deepset>>

NextCVAE == Fix \/ Unfix \/ Forward \/ PriorCall \/ EncodeCall \/ DecodeCall \/ SampleCall

SpecCVAE == InitCVAE /\ [][NextCVAE]_vars

(***************************************************************************)
(* Claims about CVAE.                                                      *)
(***************************************************************************)
Readers == {"forward", "encode", "prior", "decode", "sample"}

====
